---- MODULE Spec2Model ----
(***************************************************************************)
(* Model of src/app.py: a Streamlit session that loads PDFs (uploaded or   *)
(* by URL) into a session-named PgVector2 collection and answers chat      *)
(* questions by retrieving documents and prompting an LLM.                 *)
(*                                                                         *)
(* One script run of app.py handles one user event; each action below is   *)
(* one such run, from its start to where it ends: at the end of the        *)
(* script, or earlier where an uncaught exception or the script runner's   *)
(* stop/rerun control exception leaves it.  Strings the script builds are  *)
(* modelled as sequences of tokens, so that concatenation and slicing are  *)
(* computed, not assumed.                                                  *)
(*                                                                         *)
(* The model describes a server process started with GROQ_API_KEY set.     *)
(* Without it line 18 raises TypeError in every script run, before any     *)
(* session state exists, and no behaviour below is possible.               *)
(***************************************************************************)
EXTENDS Integers, Sequences, FiniteSets, TLC

VARIABLES
    messages,               \* st.session_state.messages
    assistant,              \* st.session_state.assistant
    knowledge_base_loaded,  \* st.session_state.knowledge_base_loaded
    collection_name,        \* st.session_state.collection_name
    db,                     \* vector database: collection name -> documents
    notice,                 \* status message emitted by the last handler
    last_ask,               \* search, prompt and response text of the chat
                            \* turn of the last script run (None when it ran
                            \* no search)
    turns,                  \* chat turns completed (answered, or reported as
                            \* an error) since the transcript was last empty
    ingested,               \* sources of this session's successful loads
    cleared,                \* number of messages the Clear Conversation of
                            \* the last script run removed (-1 when that run
                            \* was no Clear Conversation)
    other_collection_name   \* collection name of a second browser session

vars == <<messages, assistant, knowledge_base_loaded, collection_name, db,
          notice, last_ask, turns, ingested, cleared, other_collection_name>>

(***************************************************************************)
(* Bounds of the model.                                                    *)
(***************************************************************************)
MaxTurns == 2        \* chat turns kept in one transcript
MaxSources == 2      \* files / URL lines given to one load
UuidLen == 9         \* characters of a uuid string that are modelled

(***************************************************************************)
(* Program constants.                                                      *)
(***************************************************************************)
PrefixLen == 8       \* str(uuid.uuid4())[:8]
num_documents == 5   \* kb.search(query=prompt, num_documents=5)

None == [none |-> TRUE]

Min(a, b) == IF a < b THEN a ELSE b

(***************************************************************************)
(* Session-start collection name: f"docs_{str(uuid.uuid4())[:8]}".         *)
(* The uuid strings sampled use two of the hex digits and differ only      *)
(* from the last character kept by the slice on.                           *)
(***************************************************************************)
HexDigits == {0, 1}

Uuids == {u \in [1..UuidLen -> HexDigits] :
            \A i \in 1..UuidLen : i < PrefixLen => u[i] = 0}

Slice(s, n) == SubSeq(s, 1, Min(n, Len(s)))

CollectionName(u) == <<"docs_">> \o Slice(u, PrefixLen)

CollectionNames == {CollectionName(u) : u \in Uuids}

(***************************************************************************)
(* Documents.  A source (an uploaded file or a URL) is read into a list    *)
(* of documents, one per chunk; source "e" is a PDF without text and       *)
(* source "x" is not a PDF: reading it raises.                             *)
(***************************************************************************)
Sources == {"a", "b", "e", "x"}

Unreadable == {"x"}

NumChunks(s) == CASE s = "a" -> 3 [] s = "b" -> 3 [] OTHER -> 0

Document(s, i) == [name |-> s, chunk |-> i, content |-> <<"text", s, i>>]

DocumentList(s) == {Document(s, i) : i \in 1..NumChunks(s)}

AllDocuments == UNION {DocumentList(s) : s \in Sources}

Range(f) == {f[i] : i \in DOMAIN f}

DocumentsOf(srcs) == UNION {DocumentList(s) : s \in Range(srcs)}

(***************************************************************************)
(* kb.search(query, num_documents): the documents of the collection        *)
(* ranked by similarity to the query, best first, at most num_documents.   *)
(***************************************************************************)
Questions == {<<"q1">>, <<"q2">>}

SourceOrder(s) == CASE s = "a" -> 1 [] s = "b" -> 2 [] OTHER -> 3

Similarity(q, d) ==
    IF q = <<"q1">> THEN 3 * SourceOrder(d.name) + d.chunk ELSE 4 - d.chunk

RanksBefore(q, d, e) ==
    \/ Similarity(q, d) > Similarity(q, e)
    \/ /\ Similarity(q, d) = Similarity(q, e)
       /\ \/ SourceOrder(d.name) < SourceOrder(e.name)
          \/ d.name = e.name /\ d.chunk < e.chunk

RECURSIVE Ranked(_, _)
Ranked(q, S) ==
    IF S = {} THEN <<>>
    ELSE LET best == CHOOSE d \in S : \A e \in S \ {d} : RanksBefore(q, d, e)
         IN  <<best>> \o Ranked(q, S \ {best})

KbSearch(entries, q, k) == Slice(Ranked(q, entries), k)

(***************************************************************************)
(* Context and prompt construction of the chat turn.                       *)
(***************************************************************************)
DocumentBlock(i, doc) == <<"Document ", i + 1, ":\n">> \o doc.content

RECURSIVE Join(_, _)
Join(parts, sep) ==
    IF Len(parts) = 0 THEN <<>>
    ELSE IF Len(parts) = 1 THEN parts[1]
    ELSE parts[1] \o sep \o Join(Tail(parts), sep)

Context(relevant_docs) ==
    Join([i \in 1..Len(relevant_docs) |->
              DocumentBlock(i - 1, relevant_docs[i])], <<"\n\n">>)

PromptHeader ==
    <<"Based on the following context from the documents, please answer the question.",
      "\n\n", "Context:", "\n">>

EnhancedPrompt(context, prompt) ==
    PromptHeader \o context
        \o <<"\n\n", "Question: ">> \o prompt \o <<"\n\n", "Answer:">>

(***************************************************************************)
(* Response objects assistant.run may return, and the text extracted       *)
(* from them.  A record field stands for an attribute (hasattr); repr is   *)
(* what str() gives.  A string is a sequence of tokens; str(e) of an       *)
(* exception may be the empty string.                                      *)
(***************************************************************************)
Responses ==
    { [repr |-> <<"ans">>],
      [repr |-> <<"<r2>">>, content |-> <<"ans">>],
      [repr |-> <<"<r3>">>,
       messages |-> <<[repr |-> <<"<m1>">>, content |-> <<"ans0">>],
                      [repr |-> <<"<m2>">>, content |-> <<"ans">>]>>],
      [repr |-> <<"<r4>">>, messages |-> <<[repr |-> <<"ans">>]>>],
      [repr |-> <<"ans">>, messages |-> <<>>] }

HasAttr(obj, name) == name \in DOMAIN obj

ResponseText(response) ==
    IF HasAttr(response, "content") THEN response.content
    ELSE IF HasAttr(response, "messages") /\ Len(response.messages) > 0
         THEN LET last_message == response.messages[Len(response.messages)]
              IN  IF HasAttr(last_message, "content")
                  THEN last_message.content
                  ELSE last_message.repr
         ELSE response.repr

Errors == {<<"index unavailable">>}

ErrorMsg(e) == <<"Error: ">> \o e

UserMessage(prompt) == [role |-> "user", content |-> prompt]

AssistantMessage(text) == [role |-> "assistant", content |-> text]

(***************************************************************************)
(* Session state initialisation (first script run of a browser session).   *)
(***************************************************************************)
EmptyDb == [c \in CollectionNames |-> {}]

Init ==
    \E u \in Uuids :
        /\ messages = <<>>
        /\ assistant = None
        /\ knowledge_base_loaded = FALSE
        /\ collection_name = CollectionName(u)
        /\ db = EmptyDb
        /\ notice = "none"
        /\ last_ask = None
        /\ turns = 0
        /\ ingested = {}
        /\ cleared = -1
        /\ other_collection_name = None

(***************************************************************************)
(* Load handlers.  knowledge_base.load() reads the sources in order and    *)
(* inserts each source's documents into the session's collection; the      *)
(* collection is neither dropped nor cleared first.  An exception raised   *)
(* after `done` sources were inserted leaves those documents in place.     *)
(* `shown` tells whether the handler's closing message (st.success at line *)
(* 107 / 174, st.error at line 117 / 177) was displayed: it is not when    *)
(* the run ends earlier, by the script runner's stop/rerun control         *)
(* exception raised inside an st.* call or by a BaseException that the     *)
(* `except Exception` clause does not catch.                               *)
(***************************************************************************)
Inserted(collection, documents) == collection \cup documents

KnowledgeBase(srcs) == [sources |-> srcs, collection |-> collection_name]

\* variant: no assistant object is stored
NewAssistantMissing(knowledge_base) == None

NewAssistant(knowledge_base) ==
    [llm |-> "llama-3.3-70b-versatile", knowledge_base |-> knowledge_base]

LoadSucceeded(srcs, shown) ==
    /\ db' = [db EXCEPT ![collection_name] = Inserted(@, DocumentsOf(srcs))]
    /\ assistant' = NewAssistant(KnowledgeBase(srcs))
    /\ knowledge_base_loaded' = TRUE
    /\ messages' = <<>>
    /\ notice' = IF shown THEN "load_success" ELSE "load_aborted"
    /\ turns' = 0
    /\ ingested' = ingested \cup Range(srcs)
    /\ cleared' = -1
    /\ last_ask' = None
    /\ UNCHANGED <<collection_name, other_collection_name>>

\* variant: the except branch marks the knowledge base as loaded
LoadFailedMarksLoaded(srcs, done, shown) ==
    /\ db' = [db EXCEPT ![collection_name] =
                  Inserted(@, DocumentsOf(SubSeq(srcs, 1, done)))]
    /\ notice' = IF shown THEN "load_error" ELSE "load_aborted"
    /\ cleared' = -1
    /\ last_ask' = None
    /\ knowledge_base_loaded' = TRUE
    /\ UNCHANGED <<messages, assistant, collection_name,
                   turns, ingested, other_collection_name>>

\* variant: the except branch starts the session over
LoadFailedResetsSession(srcs, done, shown) ==
    /\ db' = [db EXCEPT ![collection_name] =
                  Inserted(@, DocumentsOf(SubSeq(srcs, 1, done)))]
    /\ notice' = IF shown THEN "load_error" ELSE "load_aborted"
    /\ cleared' = -1
    /\ last_ask' = None
    /\ messages' = <<>>
    /\ turns' = 0
    /\ assistant' = None
    /\ knowledge_base_loaded' = FALSE
    /\ UNCHANGED <<collection_name, ingested, other_collection_name>>

LoadFailed(srcs, done, shown) ==
    /\ db' = [db EXCEPT ![collection_name] =
                  Inserted(@, DocumentsOf(SubSeq(srcs, 1, done)))]
    /\ notice' = IF shown THEN "load_error" ELSE "load_aborted"
    /\ cleared' = -1
    /\ last_ask' = None
    /\ UNCHANGED <<messages, assistant, knowledge_base_loaded, collection_name,
                   turns, ingested, other_collection_name>>

\* number of leading sources load() can read before it meets a bad one
ReadablePrefix(srcs) ==
    LET F[i \in 0..Len(srcs)] ==
            IF i = 0 THEN 0
            ELSE IF F[i - 1] = i - 1 /\ srcs[i] \notin Unreadable
                 THEN i ELSE F[i - 1]
    IN  F[Len(srcs)]

\* one try block around the whole load: it either runs to the end, which
\* needs every source to be readable, or an exception ends it (a failure
\* that is not shown has passed the except clause or has stopped inside it)
Load(srcs) ==
    \E shown \in BOOLEAN :
        \/ /\ ReadablePrefix(srcs) = Len(srcs)
           /\ LoadSucceeded(srcs, shown)
        \/ \E done \in 0..ReadablePrefix(srcs) :
               LoadFailed(srcs, done, shown)

\* the files on the user's disk; source "b" is reached by URL
Files == {"a", "e", "x"}

\* st.file_uploader(accept_multiple_files=True): distinct uploaded files
UploadedFiles ==
    {fs \in UNION {[1..n -> Files] : n \in 0..MaxSources} :
        \A i, j \in DOMAIN fs : i # j => fs[i] # fs[j]}

LoadPDFs ==
    \E uploaded_files \in UploadedFiles :
        /\ Len(uploaded_files) > 0
        /\ Load(uploaded_files)

\* st.text_area: the lines of url_input (url_input.split('\n') has at least
\* one line); Strip is str.strip() of a line
UrlLines == {" ", " b "}

Strip(line) == CASE line = " " -> "" [] line = " b " -> "b" [] OTHER -> line

\* text areas of one line and of two lines
UrlInputs ==
    {<<l>> : l \in UrlLines} \cup {<<l, m>> : l \in UrlLines, m \in UrlLines}

ParseUrls(url_input) ==
    LET F[i \in 0..Len(url_input)] ==
            IF i = 0 THEN <<>>
            ELSE IF Strip(url_input[i]) # ""
                 THEN Append(F[i - 1], Strip(url_input[i]))
                 ELSE F[i - 1]
    IN  F[Len(url_input)]

IsBlank(url_input) == \A i \in DOMAIN url_input : Strip(url_input[i]) = ""

LoadURLs ==
    \E url_input \in UrlInputs :
        /\ ~IsBlank(url_input)
        /\ Load(ParseUrls(url_input))

LoadURLsBlank ==
    \E url_input \in UrlInputs, shown \in BOOLEAN :
        /\ IsBlank(url_input)
        /\ notice' = IF shown THEN "url_warning" ELSE "none"
        /\ cleared' = -1
        /\ last_ask' = None
        /\ UNCHANGED <<messages, assistant, knowledge_base_loaded,
                       collection_name, db, turns, ingested,
                       other_collection_name>>

(***************************************************************************)
(* Clear Conversation button.                                              *)
(***************************************************************************)
\* variant: the button also forgets the loaded knowledge base
ClearConversationForgetsAll ==
    /\ messages' = <<>>
    /\ turns' = 0
    /\ notice' = "none"
    /\ cleared' = Len(messages)
    /\ last_ask' = None
    /\ assistant' = None
    /\ knowledge_base_loaded' = FALSE
    /\ UNCHANGED <<collection_name, db, ingested, other_collection_name>>

\* variant: the button leaves the transcript as it is
ClearConversationKeepsTranscript ==
    /\ cleared' = Len(messages)
    /\ notice' = "none"
    /\ last_ask' = None
    /\ UNCHANGED <<messages, turns, assistant, knowledge_base_loaded,
                   collection_name, db, ingested, other_collection_name>>

ClearConversation ==
    /\ messages' = <<>>
    /\ turns' = 0
    /\ notice' = "none"
    /\ cleared' = Len(messages)
    /\ last_ask' = None
    /\ UNCHANGED <<assistant, knowledge_base_loaded, collection_name, db,
                   ingested, other_collection_name>>

(***************************************************************************)
(* Chat turn handler.  The turn appends the user message (line 204), then  *)
(* searches the knowledge base, builds the prompt, runs the assistant,     *)
(* shows the answer and appends it (line 248).  An Exception raised on the *)
(* way is caught (line 253), shown and appended as an assistant message    *)
(* "Error: ..." (line 256).  What is not an Exception is not caught: a     *)
(* BaseException raised by kb.search or assistant.run, and the script      *)
(* runner's stop/rerun control exception raised inside an st.* call, end   *)
(* the script run where they occur, after the user message was appended.   *)
(***************************************************************************)
ChatInputs == Questions \cup {<<>>}

\* how a turn goes after line 204:
\*   stopped         control exception in the st.* calls of lines 205-210
\*   search_escapes  kb.search raises a BaseException that is no Exception
\*   run_escapes     assistant.run raises one
\*   search_raises   kb.search raises an Exception e
\*   run_raises      assistant.run raises an Exception e
\*   returns         assistant.run returns response
\* shown: the st.* call that displays the answer (line 245) or the error
\* (line 255) returns, rather than raising the control exception
Outcomes ==
    [kind : {"stopped", "search_escapes", "run_escapes"}]
        \cup [kind : {"search_raises", "run_raises"}, e : Errors,
              shown : BOOLEAN]
        \cup [kind : {"returns"}, response : Responses, shown : BOOLEAN]

NoAssistantError == <<"'NoneType' object has no attribute 'knowledge_base'">>

IngestedDocuments == UNION {DocumentList(s) : s \in ingested}

\* the try block is entered
TurnTried(outcome) == outcome.kind # "stopped"

\* an Exception is raised in the try block and caught at line 253
TurnRaised(outcome) ==
    /\ TurnTried(outcome)
    /\ assistant = None \/ outcome.kind \in {"search_raises", "run_raises"}

\* a BaseException leaves the try block uncaught
TurnEscaped(outcome) ==
    /\ assistant # None
    /\ outcome.kind \in {"search_escapes", "run_escapes"}

\* assistant.run returned
TurnReturned(outcome) == assistant # None /\ outcome.kind = "returns"

\* kb.search returned, so a prompt was built and passed to assistant.run
TurnSearched(outcome) ==
    /\ assistant # None
    /\ outcome.kind \in {"run_escapes", "run_raises", "returns"}

\* the run reaches line 248 or line 256
TurnCompleted(outcome) ==
    /\ TurnRaised(outcome) \/ TurnReturned(outcome)
    /\ "shown" \in DOMAIN outcome => outcome.shown

\* what the turn retrieved, the prompt it passed to assistant.run, whether
\* assistant.run returned and the text the turn took from the response
SearchRecord(prompt, outcome) ==
    LET kb == assistant.knowledge_base
        relevant_docs == KbSearch(db[kb.collection], prompt, num_documents)
    IN  [relevant_docs |-> relevant_docs,
         enhanced_prompt |-> EnhancedPrompt(Context(relevant_docs), prompt),
         returned |-> TurnReturned(outcome),
         response_text |-> IF TurnReturned(outcome)
                           THEN ResponseText(outcome.response)
                           ELSE <<>>]

\* content of the assistant message a completed turn ends with
ReplyText(outcome) ==
    IF assistant = None THEN ErrorMsg(NoAssistantError)
    ELSE IF outcome.kind = "returns" THEN ResponseText(outcome.response)
    ELSE ErrorMsg(outcome.e)

\* variant: the turn overwrites the transcript with its own messages
TurnMessagesOnlyLast(msgs, prompt, outcome) ==
    IF TurnCompleted(outcome)
    THEN <<UserMessage(prompt), AssistantMessage(ReplyText(outcome))>>
    ELSE <<UserMessage(prompt)>>

TurnMessages(msgs, prompt, outcome) ==
    IF TurnCompleted(outcome)
    THEN Append(Append(msgs, UserMessage(prompt)),
                AssistantMessage(ReplyText(outcome)))
    ELSE Append(msgs, UserMessage(prompt))

ChatTurn(prompt, outcome) ==
    /\ messages' = TurnMessages(messages, prompt, outcome)
    /\ cleared' = -1
    /\ last_ask' = IF TurnSearched(outcome)
                   THEN SearchRecord(prompt, outcome)
                   ELSE None
    /\ notice' = IF TurnCompleted(outcome)
                 THEN IF TurnRaised(outcome) THEN "ask_error" ELSE "answer"
                 ELSE IF TurnEscaped(outcome) THEN "ask_escaped"
                 ELSE "ask_stopped"
    /\ turns' = IF TurnCompleted(outcome) THEN turns + 1 ELSE turns
    /\ UNCHANGED <<assistant, knowledge_base_loaded, collection_name, db,
                   ingested, other_collection_name>>

\* chat turns begun since the transcript was last empty: each appends one
\* user message
AskCalls(msgs) ==
    Cardinality({i \in 1..Len(msgs) : msgs[i].role = "user"})

Ask ==
    \E prompt \in ChatInputs, outcome \in Outcomes :
        /\ knowledge_base_loaded
        /\ prompt # <<>>
        /\ AskCalls(messages) < MaxTurns
        /\ ChatTurn(prompt, outcome)

\* a script run of a loaded session in which no button was pressed and
\* st.chat_input returned None: the transcript is drawn again, no handler
\* runs
RunWithoutEvent ==
    /\ knowledge_base_loaded
    /\ notice' = "none"
    /\ cleared' = -1
    /\ last_ask' = None
    /\ UNCHANGED <<messages, assistant, knowledge_base_loaded, collection_name,
                   db, turns, ingested, other_collection_name>>

\* variant: the question is taken into the transcript without a gate
AskNotLoadedProcessed ==
    /\ ~knowledge_base_loaded
    /\ AskCalls(messages) < MaxTurns
    /\ \E prompt \in Questions, outcome \in Outcomes :
           ChatTurn(prompt, outcome)

\* a script run while no knowledge base is loaded: the chat input is not
\* offered and the "please load documents" information is shown (line
\* 261), unless a control exception ends the run in that st.info call or
\* in an st.* call before it
AskNotLoaded ==
    /\ ~knowledge_base_loaded
    /\ \E shown \in BOOLEAN :
           notice' = IF shown THEN "please_load" ELSE "none"
    /\ cleared' = -1
    /\ last_ask' = None
    /\ UNCHANGED <<messages, assistant, knowledge_base_loaded, collection_name,
                   db, turns, ingested, other_collection_name>>

\* st.success / st.error / st.warning / st.info / st.markdown
NoticeLevel(n) ==
    CASE n = "load_success" -> "success"
      [] n \in {"load_error", "ask_error"} -> "error"
      [] n = "url_warning" -> "warning"
      [] n = "please_load" -> "info"
      [] n = "answer" -> "markdown"
      [] OTHER -> "none"

Next ==
    \/ LoadPDFs
    \/ LoadURLs
    \/ LoadURLsBlank
    \/ ClearConversation
    \/ Ask
    \/ RunWithoutEvent
    \/ AskNotLoaded

Spec == Init /\ [][Next]_vars

(***************************************************************************)
(* A second browser session starts: its own first script run draws         *)
(* another uuid4 value, different from the one this session drew, and      *)
(* names its collection by the same rule.  Both sessions use one database. *)
(***************************************************************************)
OtherSessionStart ==
    /\ other_collection_name = None
    /\ \E u \in Uuids :
           /\ \E mine \in Uuids \ {u} : CollectionName(mine) = collection_name
           /\ other_collection_name' = CollectionName(u)
    /\ UNCHANGED <<messages, assistant, knowledge_base_loaded, collection_name,
                   db, notice, last_ask, turns, ingested, cleared>>

\* files the second session uploads
OtherUploads == {<<"b">>}

\* the second session loads documents: the same load handler, run on that
\* session's state, inserts into the collection of that session's name,
\* which is this session's collection when the two names are equal
OtherSessionLoad ==
    /\ other_collection_name # None
    /\ \E srcs \in OtherUploads :
           db' = [db EXCEPT ![other_collection_name] =
                      Inserted(@, DocumentsOf(srcs))]
    /\ UNCHANGED <<messages, assistant, knowledge_base_loaded, collection_name,
                   notice, last_ask, turns, ingested, cleared,
                   other_collection_name>>

NextSessions == Next \/ OtherSessionStart \/ OtherSessionLoad

SpecSessions == Init /\ [][NextSessions]_vars

TypeOK ==
    /\ knowledge_base_loaded \in BOOLEAN
    /\ collection_name \in CollectionNames
    /\ turns \in 0..MaxTurns
    /\ ingested \subseteq Sources
    /\ cleared \in -1..(2 * MaxTurns)
    /\ \A c \in CollectionNames : db[c] \subseteq AllDocuments

(***************************************************************************)
(* Properties.                                                             *)
(***************************************************************************)
Last(seq) == seq[Len(seq)]

IsPrefix(s, t) == Len(s) <= Len(t) /\ SubSeq(t, 1, Len(s)) = s

Alternates(msgs) ==
    \A i \in 1..Len(msgs) :
        msgs[i].role = IF i % 2 = 1 THEN "user" ELSE "assistant"

IsErrorText(content) == Len(content) > 0 /\ Head(content) = "Error: "

\* C1: after n chat turns on an emptied transcript the transcript holds
\* exactly 2n messages, alternating user / assistant and starting with user,
\* whether the turns' retrieval or LLM call succeeded or raised.
C1_TranscriptInvariant ==
    /\ Len(messages) = 2 * AskCalls(messages)
    /\ Alternates(messages)

\* C2: knowledge_base_loaded starts false; a step makes it true only when
\* it is a load that inserted every source and ran to its end (to the
\* success message, shown or not); and a chat turn is processed only while
\* it is true.
C2_ReadyOnlyBySuccessfulLoad ==
    /\ knowledge_base_loaded = FALSE
    /\ [][ /\ (~knowledge_base_loaded /\ knowledge_base_loaded') =>
                /\ notice' \in {"load_success", "load_aborted"}
                /\ assistant' # None
                /\ DocumentsOf(assistant'.knowledge_base.sources)
                       \subseteq db'[collection_name]
           /\ (messages' # messages /\ messages' # <<>>) =>
                knowledge_base_loaded ]_vars

\* the session became ready by a successful load and then ran a chat turn
C2_Witness ==
    /\ knowledge_base_loaded
    /\ assistant # None
    /\ turns = 1

\* C3: a failed ingestion leaves no partially populated collection in a
\* ready session: whenever the session is ready, and so whenever a chat
\* turn searches, the session's collection holds exactly the documents of
\* the loads that completed successfully.
C3_NoPartialCollection ==
    knowledge_base_loaded => db[collection_name] = IngestedDocuments

\* C4: a successful load made while the session is ready replaces the
\* collection: right after it the collection holds the documents of that
\* load only (stated for collections that hold no leftovers of failed
\* loads, so that only the merge of successful loads is in question).
C4_ReloadReplacesCollection ==
    (notice = "load_success" /\ db[collection_name] = IngestedDocuments)
        => db[collection_name] = DocumentsOf(assistant.knowledge_base.sources)

\* C5: a chat turn in which retrieval or the LLM call raises appends the
\* user message followed by an assistant message with a non-empty
\* "Error: ..." text, and leaves the session ready with the same assistant.
C5_AskErrorKeepsSessionReady ==
    [][ ( /\ Len(messages') > Len(messages)
          /\ notice' \in {"ask_error", "ask_escaped"} ) =>
            /\ Len(messages') = Len(messages) + 2
            /\ IsPrefix(messages, messages')
            /\ messages'[Len(messages') - 1].role = "user"
            /\ Last(messages').role = "assistant"
            /\ IsErrorText(Last(messages').content)
            /\ knowledge_base_loaded'
            /\ assistant' = assistant ]_vars

\* C6 as stated: a chat attempt while no knowledge base is loaded ends in
\* an error outcome and leaves the transcript unchanged.
C6_AskWhileEmptyIsError ==
    [][ (~knowledge_base_loaded /\ notice' = "please_load") =>
            /\ NoticeLevel(notice') = "error"
            /\ messages' = messages ]_vars

\* C6 amended: a chat attempt while no knowledge base is loaded is not
\* processed; the run shows the "please load documents" information (not an
\* error) and leaves transcript, ready flag and assistant unchanged.
C6_AskWhileEmptyIsIgnored ==
    [][ ~knowledge_base_loaded =>
            \/ knowledge_base_loaded'
            \/ /\ messages' = messages
               /\ turns' = turns
               /\ assistant' = assistant
               /\ notice' = "please_load" => NoticeLevel(notice') = "info" ]_vars

\* the not-loaded branch ran in an empty session
C6_Witness ==
    /\ ~knowledge_base_loaded
    /\ notice = "please_load"
    /\ messages = <<>>

\* C7: chat turns of one session are processed one whole turn after the
\* other, also when a question arrives while the turn before it is still
\* being answered: the transcript never holds two user messages in a row,
\* nor an assistant message that does not follow a user message.
C7_TurnsSerialized ==
    \A i \in 1..Len(messages) :
        /\ (messages[i].role = "user" /\ i > 1) =>
               messages[i - 1].role = "assistant"
        /\ messages[i].role = "assistant" =>
               (i > 1 /\ messages[i - 1].role = "user")

\* C8 as stated: the transcript is append-only; across any step the
\* earlier transcript is a prefix of the later one.
C8_TranscriptAppendOnly == [][IsPrefix(messages, messages')]_vars

\* C8 amended: a step either extends the transcript (chat turn) or leaves
\* it unchanged, or it is a successful load or a Clear Conversation, which
\* empty it.
C8_AppendOnlyBetweenResets ==
    [][ \/ IsPrefix(messages, messages')
        \/ /\ messages' = <<>>
           /\ \/ cleared' # -1
              \/ /\ notice' \in {"load_success", "load_aborted"}
                 /\ knowledge_base_loaded'
                 /\ DocumentsOf(assistant'.knowledge_base.sources)
                        \subseteq db'[collection_name] ]_vars

\* a second chat turn extended the transcript of the first
C8_Witness ==
    /\ Len(messages) >= 4
    /\ notice \in {"answer", "ask_error"}

\* C9: two sessions never hold the same collection id.
C9_DistinctCollectionIds ==
    other_collection_name # None => other_collection_name # collection_name

\* C10: when retrieval returns no documents the prompt passed to the LLM is
\* not the normal "Based on the following context" prompt with an empty
\* context section.
EmptyContextSection(p) ==
    /\ IsPrefix(PromptHeader, p)
    /\ IsPrefix(<<"\n\n", "Question: ">>,
                SubSeq(p, Len(PromptHeader) + 1, Len(p)))

C10_NoContextPromptIsExplicit ==
    (last_ask # None /\ last_ask.relevant_docs = <<>>)
        => ~EmptyContextSection(last_ask.enhanced_prompt)

\* C11: a chat turn retrieves at most 5 documents, all from the session's
\* collection and best first; the prompt holds, after the header, every
\* retrieved document's text in that order, each under its 1-based label
\* "Document i:", and ends with the literal question; and on success the
\* returned answer is the assistant message right after the user's question.
BlockOffset(docs, i) ==
    LET F[j \in 0..Len(docs)] ==
            IF j = 0 THEN Len(PromptHeader)
            ELSE F[j - 1] + 3 + Len(docs[j].content) + 1
    IN  F[i - 1]

PromptTail(q) == <<"\n\n", "Question: ">> \o q \o <<"\n\n", "Answer:">>

\* the user message of the chat turn of the last script run
AskedMessage ==
    IF notice \in {"answer", "ask_error"}
    THEN messages[Len(messages) - 1]
    ELSE Last(messages)

C11_PromptHoldsRetrievedChunks ==
    last_ask # None =>
        LET docs == last_ask.relevant_docs
            p == last_ask.enhanced_prompt
            q == AskedMessage.content
        IN  /\ Len(docs) <= 5
            /\ Range(docs) \subseteq db[collection_name]
            /\ \A i, j \in 1..Len(docs) :
                   i < j => Similarity(q, docs[i]) >= Similarity(q, docs[j])
            /\ IsPrefix(PromptHeader, p)
            /\ \A i \in 1..Len(docs) :
                   LET off == BlockOffset(docs, i)
                   IN  /\ p[off + 1] = "Document "
                       /\ p[off + 2] = i
                       /\ p[off + 3] = ":\n"
                       /\ SubSeq(p, off + 4, off + 3 + Len(docs[i].content))
                              = docs[i].content
            /\ SubSeq(p, Len(p) - Len(PromptTail(q)) + 1, Len(p)) = PromptTail(q)
            /\ AskedMessage.role = "user"
            /\ last_ask.returned =>
                   /\ Len(messages) >= 2
                   /\ messages[Len(messages) - 1] = UserMessage(q)
                   /\ Last(messages) = AssistantMessage(last_ask.response_text)

\* C12: the prompt passed to the LLM never exceeds the configured maximum
\* context length (counted in tokens of the prompt); documents beyond it
\* would be dropped from the lowest rank up.  The handler has no such
\* setting; MaxContextLength is a length that holds the header, the question
\* and three documents.
MaxContextLength == 30

C12_PromptWithinContextLength ==
    last_ask # None => Len(last_ask.enhanced_prompt) <= MaxContextLength

\* C13: a load of several sources, one unreadable and at least one
\* readable, still inserts the readable sources' documents, reports the bad
\* source and ends with the session ready.
MixedSources(srcs) ==
    /\ \E i \in DOMAIN srcs : srcs[i] \in Unreadable
    /\ \E i \in DOMAIN srcs : srcs[i] \notin Unreadable /\ NumChunks(srcs[i]) > 0

ReadableDocuments(srcs) ==
    UNION {DocumentList(s) : s \in Range(srcs) \ Unreadable}

C13_PartialSuccessIngestion ==
    [][ \A srcs \in UploadedFiles :
            (MixedSources(srcs) /\ Load(srcs)) =>
                /\ knowledge_base_loaded'
                /\ ReadableDocuments(srcs) \subseteq db'[collection_name]
                /\ NoticeLevel(notice') = "error" ]_vars

\* C14: whenever the session is ready it holds an assistant with a
\* knowledge base on the session's collection, so a chat turn never meets a
\* missing assistant.
C14_ReadyHasAssistant ==
    /\ knowledge_base_loaded =>
           /\ assistant # None
           /\ HasAttr(assistant, "knowledge_base")
           /\ assistant.knowledge_base.collection = collection_name
    /\ \A i \in 1..Len(messages) :
           messages[i].content # ErrorMsg(NoAssistantError)

\* the session stayed ready through a chat turn and a failed re-load
C14_Witness ==
    /\ knowledge_base_loaded
    /\ notice = "load_error"
    /\ Len(messages) = 2

\* C15: a load that raises leaves ready flag, assistant and transcript as
\* they were: a failed re-load leaves the session ready with the previous
\* assistant, a failed first load leaves it empty.
C15_FailedLoadKeepsSession ==
    [][ notice' = "load_error" =>
            /\ knowledge_base_loaded' = knowledge_base_loaded
            /\ assistant' = assistant
            /\ messages' = messages ]_vars

\* a re-load failed in a ready session that had a transcript
C15_Witness ==
    /\ notice = "load_error"
    /\ knowledge_base_loaded
    /\ assistant # None
    /\ Len(messages) > 0

\* C16: the collection id never changes after session start, and Clear
\* Conversation empties the transcript, whatever it held, and leaves ready
\* flag, assistant and collection id as they were.
C16_CollectionIdFixedClearKeepsSession ==
    [][ /\ collection_name' = collection_name
        /\ cleared' # -1 =>
               /\ cleared' = Len(messages)
               /\ messages' = <<>>
               /\ knowledge_base_loaded' = knowledge_base_loaded
               /\ assistant' = assistant ]_vars

\* Clear Conversation removed the two chat turns of a ready session
C16_Witness ==
    /\ cleared >= 2
    /\ messages = <<>>
    /\ knowledge_base_loaded
    /\ assistant # None

====
